---- MODULE Spec2Model ----
(***************************************************************************)
(* Model of the arbitrage engine of src/core/arbitrage.py.                 *)
(*                                                                         *)
(* The engine computes with Python floats (IEEE-754 binary64) and Python   *)
(* ints.  Several of its results sit on a rounding boundary (the odds 2.1, *)
(* 3.5 and 4.2 have reciprocals that sum to exactly 1), so the arithmetic  *)
(* is modelled bit for bit: a float is a sign, a 53-bit significand and a  *)
(* binary exponent, and every operation rounds its exact result to the     *)
(* nearest float, ties to even.  Significands are wider than TLC's         *)
(* integers, so they are kept as little-endian sequences of 15-bit limbs.  *)
(* Of the values outside the normal range only float("inf") is modelled,   *)
(* as a bankroll: the bounded inputs never produce a subnormal or a NaN,   *)
(* and no operation on finite values overflows.                            *)
(***************************************************************************)
EXTENDS Integers, Sequences, FiniteSets

\* --------------------------------------------------------------------------
\* Natural numbers of arbitrary size: little-endian limbs, no high zero limb.
\* --------------------------------------------------------------------------

LimbBits == 15
Limb == 32768

RECURSIVE BNTrim(_)
BNTrim(a) ==
    IF a = <<>> THEN <<>>
    ELSE IF a[Len(a)] = 0 THEN BNTrim(SubSeq(a, 1, Len(a) - 1))
    ELSE a

RECURSIVE BNOfInt(_)
BNOfInt(n) == IF n = 0 THEN <<>> ELSE <<n % Limb>> \o BNOfInt(n \div Limb)

RECURSIVE BNToInt(_)
BNToInt(a) == IF a = <<>> THEN 0 ELSE a[1] + Limb * BNToInt(Tail(a))

BNLimb(a, i) == IF i <= Len(a) THEN a[i] ELSE 0

\* a + b + c from limb i on, c the carry into limb i
RECURSIVE BNAddFrom(_, _, _, _)
BNAddFrom(a, b, i, c) ==
    IF i > Len(a) /\ i > Len(b) THEN (IF c = 0 THEN <<>> ELSE <<c>>)
    ELSE LET t == BNLimb(a, i) + BNLimb(b, i) + c
         IN  <<t % Limb>> \o BNAddFrom(a, b, i + 1, t \div Limb)

\* a + b
BNAdd(a, b) == BNAddFrom(a, b, 1, 0)

\* a - b - c from limb i on, c the borrow out of limb i - 1
RECURSIVE BNSubFrom(_, _, _, _)
BNSubFrom(a, b, i, c) ==
    IF i > Len(a) THEN <<>>
    ELSE LET t == a[i] - BNLimb(b, i) - c
         IN  <<t % Limb>> \o BNSubFrom(a, b, i + 1, IF t < 0 THEN 1 ELSE 0)

\* a - b, for a >= b
BNSub(a, b) == BNTrim(BNSubFrom(a, b, 1, 0))

\* -1, 0 or 1 as a < b, a = b or a > b
RECURSIVE BNCmpFrom(_, _, _)
BNCmpFrom(a, b, i) ==
    IF i = 0 THEN 0
    ELSE IF a[i] < b[i] THEN -1
    ELSE IF a[i] > b[i] THEN 1
    ELSE BNCmpFrom(a, b, i - 1)

BNCmp(a, b) ==
    IF Len(a) < Len(b) THEN -1
    ELSE IF Len(a) > Len(b) THEN 1
    ELSE BNCmpFrom(a, b, Len(a))

\* a * d + c from limb i on, for a limb d
RECURSIVE BNMulLimbFrom(_, _, _, _)
BNMulLimbFrom(a, d, i, c) ==
    IF i > Len(a) THEN (IF c = 0 THEN <<>> ELSE <<c>>)
    ELSE LET t == a[i] * d + c
         IN  <<t % Limb>> \o BNMulLimbFrom(a, d, i + 1, t \div Limb)

\* a * d, for a limb d
BNMulLimb(a, d) == IF d = 0 THEN <<>> ELSE BNMulLimbFrom(a, d, 1, 0)

\* a * Limb^k
RECURSIVE BNShiftLimbs(_, _)
BNShiftLimbs(a, k) ==
    IF a = <<>> \/ k = 0 THEN a ELSE <<0>> \o BNShiftLimbs(a, k - 1)

\* a * b
RECURSIVE BNMul(_, _)
BNMul(a, b) ==
    IF b = <<>> \/ a = <<>> THEN <<>>
    ELSE BNAdd(BNMulLimb(a, b[1]), BNShiftLimbs(BNMul(a, Tail(b)), 1))

\* a * 2^k
BNShl(a, k) == BNShiftLimbs(BNMulLimb(a, 2 ^ (k % LimbBits)), k \div LimbBits)

\* floor(a / 2^r) from limb i on, for r < LimbBits
RECURSIVE BNShrFrom(_, _, _)
BNShrFrom(a, r, i) ==
    IF i > Len(a) THEN <<>>
    ELSE <<(a[i] \div 2 ^ r) + (BNLimb(a, i + 1) % 2 ^ r) * 2 ^ (LimbBits - r)>>
         \o BNShrFrom(a, r, i + 1)

\* floor(a / 2^k)
BNShr(a, k) == BNTrim(BNShrFrom(a, k % LimbBits, 1 + k \div LimbBits))

RECURSIVE IntBitLen(_)
IntBitLen(n) == IF n = 0 THEN 0 ELSE 1 + IntBitLen(n \div 2)

BNBitLen(a) ==
    IF a = <<>> THEN 0 ELSE LimbBits * (Len(a) - 1) + IntBitLen(a[Len(a)])

BNIsOdd(a) == a # <<>> /\ a[1] % 2 = 1

\* <<q, R - q * d>> for the largest q <= qhat with q * d <= R; p is qhat * d
RECURSIVE BNDivDigit(_, _, _), BNDivDigitTry(_, _, _, _)
BNDivDigitTry(R, d, qhat, p) ==
    IF BNCmp(p, R) > 0 THEN BNDivDigit(R, d, qhat - 1) ELSE <<qhat, BNSub(R, p)>>

BNDivDigit(R, d, qhat) == BNDivDigitTry(R, d, qhat, BNMulLimb(d, qhat))

\* The two top limbs of R over the top limb of d: at least the next limb of
\* the quotient R / d, and at most two more when d has a full top limb
BNDivEstimate(R, d) ==
    LET est == (BNLimb(R, Len(d) + 1) * Limb + BNLimb(R, Len(d))) \div d[Len(d)]
    IN  IF est >= Limb THEN Limb - 1 ELSE est

\* <<q * Limb^n + floor(r * Limb^n / d), r * Limb^n mod d>>, for r < d and
\* d with a full top limb: long division, one limb of quotient a step
RECURSIVE BNDivLimbs(_, _, _, _), BNDivStep(_, _, _, _), BNDivNext(_, _, _, _)
BNDivNext(d, n, q, step) ==
    BNDivLimbs(step[2], d, n - 1,
               <<step[1]>> \o (IF q = <<>> /\ step[1] = 0 THEN <<>> ELSE q))

BNDivStep(R, d, n, q) == BNDivNext(d, n, q, BNDivDigit(R, d, BNDivEstimate(R, d)))

BNDivLimbs(r, d, n, q) ==
    IF n = 0 THEN <<q, r>> ELSE BNDivStep(BNShiftLimbs(r, 1), d, n, q)

\* The division of nn by dn, both shifted left by sh bits
BNDivUnshift(qr, sh) == <<qr[1], BNShr(qr[2], sh)>>

BNDivShifted(nn, dn, k, sh) ==
    BNDivUnshift(IF BNCmp(nn, dn) >= 0
                 THEN BNDivLimbs(BNSub(nn, dn), dn, k, <<1>>)
                 ELSE BNDivLimbs(nn, dn, k, <<>>), sh)

BNDivShift(n, d, k, sh) == BNDivShifted(BNShl(n, sh), BNShl(d, sh), k, sh)

\* <<floor(n * Limb^k / d), n * Limb^k mod d>>, for n < 2 * d
BNDiv(n, d, k) == BNDivShift(n, d, k, LimbBits - IntBitLen(d[Len(d)]))

\* --------------------------------------------------------------------------
\* Python float: IEEE-754 binary64, round to nearest, ties to even.
\* A float is [s, m, e] with value (-1)^s * m * 2^e; m has exactly
\* Precision bits, or is <<>> for zero.
\* --------------------------------------------------------------------------

Precision == 53

\* Limbs of quotient a division computes before rounding: more bits than
\* Precision + 1, so that the remainder only breaks ties
QuotientLimbs == 4

FZero == [s |-> 0, m |-> <<>>, e |-> 0]

\* float("inf"): no significand, and an exponent that no zero has
FInf == [s |-> 0, m |-> <<>>, e |-> 1]

FIsZero(a) == a.m = <<>> /\ a.e = 0

FIsInf(a) == a.m = <<>> /\ a.e # 0

\* q * 2^E with q of Precision or Precision + 1 bits (after a carry)
FNormal(s, q, E) ==
    IF BNBitLen(q) > Precision THEN [s |-> s, m |-> BNShr(q, 1), e |-> E + 1]
    ELSE [s |-> s, m |-> q, e |-> E]

\* c compares the dropped bits with half a unit of q: up when above, or on a
\* tie when something was dropped before (sticky) or q is odd
FRoundUp(s, q, E, c, sticky) ==
    FNormal(s, IF c > 0 \/ (c = 0 /\ (sticky \/ BNIsOdd(q)))
               THEN BNAdd(q, <<1>>) ELSE q, E)

FRoundDrop(s, M, E, sticky, drop, q) ==
    FRoundUp(s, q, E + drop,
             BNCmp(BNSub(M, BNShl(q, drop)), BNShl(<<1>>, drop - 1)), sticky)

FRoundLen(s, M, E, sticky, len) ==
    IF M = <<>> THEN FZero
    ELSE IF len <= Precision
    THEN [s |-> s, m |-> BNShl(M, Precision - len), e |-> E - (Precision - len)]
    ELSE FRoundDrop(s, M, E, sticky, len - Precision, BNShr(M, len - Precision))

\* The float nearest to (-1)^s * (M + f) * 2^E, where 0 <= f < 1 and
\* sticky says f > 0.  With sticky set, M has more than Precision bits.
FRound(s, M, E, sticky) == FRoundLen(s, M, E, sticky, BNBitLen(M))

\* float(n) for a Python int n
FInt(n) == FRound(IF n < 0 THEN 1 ELSE 0, BNOfInt(IF n < 0 THEN -n ELSE n), 0, FALSE)

FNeg(a) == IF FIsZero(a) THEN a ELSE [a EXCEPT !.s = 1 - a.s]

FDivRound(a, b, qr) ==
    FRound((a.s + b.s) % 2, qr[1], a.e - b.e - QuotientLimbs * LimbBits, qr[2] # <<>>)

\* a / b, for finite b # 0; an infinity divided stays an infinity
FDiv(a, b) ==
    IF FIsZero(a) THEN FZero
    ELSE IF FIsInf(a) THEN [a EXCEPT !.s = (a.s + b.s) % 2]
    ELSE FDivRound(a, b, BNDiv(a.m, b.m, QuotientLimbs))

\* a * b
FMul(a, b) ==
    IF FIsZero(a) \/ FIsZero(b) THEN FZero
    ELSE FRound((a.s + b.s) % 2, BNMul(a.m, b.m), a.e + b.e, FALSE)

\* The sum of as * am * 2^e and bs * bm * 2^e; c compares am with bm
FAddCompared(as, am, bs, bm, e, c) ==
    IF as # bs /\ c = 0 THEN FZero
    ELSE FRound(IF as = bs \/ c > 0 THEN as ELSE bs,
                IF as = bs THEN BNAdd(am, bm)
                ELSE IF c > 0 THEN BNSub(am, bm) ELSE BNSub(bm, am),
                e, FALSE)

FAddAligned(as, am, bs, bm, e) == FAddCompared(as, am, bs, bm, e, BNCmp(am, bm))

\* a + b
FAdd(a, b) ==
    IF FIsZero(a) THEN b
    ELSE IF FIsZero(b) THEN a
    ELSE LET e == IF a.e <= b.e THEN a.e ELSE b.e
         IN  FAddAligned(a.s, BNShl(a.m, a.e - e), b.s, BNShl(b.m, b.e - e), e)

\* a - b
FSub(a, b) == FAdd(a, FNeg(b))

\* -1, 0 or 1 as |a| < |b|, |a| = |b| or |a| > |b|, for a # 0 and b # 0
FCmpMagnitude(a, b) ==
    IF a.e < b.e THEN -1 ELSE IF a.e > b.e THEN 1 ELSE BNCmp(a.m, b.m)

\* -1, 0 or 1 as a < b, a = b or a > b
FCmp(a, b) ==
    IF FIsZero(a) /\ FIsZero(b) THEN 0
    ELSE IF FIsZero(a) THEN (IF b.s = 0 THEN -1 ELSE 1)
    ELSE IF FIsZero(b) THEN (IF a.s = 0 THEN 1 ELSE -1)
    ELSE IF a.s # b.s THEN (IF a.s = 0 THEN 1 ELSE -1)
    ELSE (IF a.s = 0 THEN 1 ELSE -1) * FCmpMagnitude(a, b)

FLt(a, b) == FCmp(a, b) < 0
FLe(a, b) == FCmp(a, b) <= 0

\* The float a decimal literal n/d denotes (2.1 is FLit(21, 10)): the float
\* nearest to the exact quotient.
FLit(n, d) == FDiv(FInt(n), FInt(d))

PyRoundDrop(a, drop, q) ==
    LET c == BNCmp(BNSub(a.m, BNShl(q, drop)), BNShl(<<1>>, drop - 1))
    IN  BNToInt(q) + (IF c > 0 \/ (c = 0 /\ BNIsOdd(q)) THEN 1 ELSE 0)

\* round(a) with no ndigits: the nearest Python int, ties to even
PyRound(a) ==
    (IF a.s = 0 THEN 1 ELSE -1) *
        (IF FIsZero(a) THEN 0
         ELSE IF a.e >= 0 THEN BNToInt(BNShl(a.m, a.e))
         ELSE IF -a.e > Precision + 1 THEN 0
         ELSE PyRoundDrop(a, -a.e, BNShr(a.m, -a.e)))

\* --------------------------------------------------------------------------
\* src/core/models.py and src/core/arbitrage.py
\* --------------------------------------------------------------------------

One == FInt(1)
Hundred == FInt(100)

\* Outcome(bookmaker, odds, market)
Outcome(bookmaker, odds, market) ==
    [bookmaker |-> bookmaker, odds |-> odds, market |-> market]

\* What a call produces: a returned value or a raised exception
Return(v) == [raised |-> "none", value |-> v]
Raise(exc) == [raised |-> exc]

\* The sum taken over the last n outcomes, from the last one backwards
RECURSIVE SumReciprocalsReversed(_, _)
SumReciprocalsReversed(outcomes, n) ==
    IF n = 0 THEN FZero
    ELSE FAdd(SumReciprocalsReversed(outcomes, n - 1),
              FDiv(One, outcomes[Len(outcomes) - n + 1].odds))

\* sum(1.0 / outcome.odds for outcome in outcomes) over the first n outcomes:
\* the builtin adds left to right, starting from the int 0
RECURSIVE SumReciprocals(_, _)
SumReciprocals(outcomes, n) ==
    IF n = 0 THEN FZero
    ELSE FAdd(SumReciprocals(outcomes, n - 1), FDiv(One, outcomes[n].odds))

\* return s_value <= 1.0, s_value
DetectResultLe(s_value) == <<FLe(s_value, One), s_value>>

\* return s_value < 1.0, s_value
DetectResult(s_value) == <<FLt(s_value, One), s_value>>

\* detect_arbitrage that rejects only odds < 1.0
detect_arbitrage_lt(outcomes) ==
    IF outcomes = <<>> \/ Len(outcomes) < 2 THEN <<FALSE, FZero>>
    ELSE IF \E i \in 1..Len(outcomes) : FLt(outcomes[i].odds, One)
    THEN <<FALSE, FZero>>
    ELSE DetectResult(SumReciprocals(outcomes, Len(outcomes)))

\* detect_arbitrage(outcomes) -> (is_arbitrage, s_value)
detect_arbitrage(outcomes) ==
    IF outcomes = <<>> \/ Len(outcomes) < 2 THEN <<FALSE, FZero>>
    ELSE IF \E i \in 1..Len(outcomes) : FLe(outcomes[i].odds, One)
    THEN <<FALSE, FZero>>
    ELSE DetectResult(SumReciprocals(outcomes, Len(outcomes)))

\* if round_stakes: stake = int(stake) -- truncated, not rounded
RoundStakeTruncate(stake, round_stakes) ==
    IF ~round_stakes THEN stake
    ELSE IF FIsZero(stake) THEN 0
    ELSE (IF stake.s = 0 THEN 1 ELSE -1) *
         (IF stake.e >= 0 THEN BNToInt(BNShl(stake.m, stake.e))
          ELSE IF -stake.e > Precision THEN 0
          ELSE BNToInt(BNShr(stake.m, -stake.e)))

\* if round_stakes: stake = round(stake) -- an int when rounded
RoundStake(stake, round_stakes) == IF round_stakes THEN PyRound(stake) ELSE stake

\* stake = total_bankroll / outcome.odds, not divided by s_value
OptimalStakeNoS(outcome, total_bankroll, s_value, round_stakes) ==
    RoundStake(FDiv(total_bankroll, outcome.odds), round_stakes)

\* stake = (total_bankroll / outcome.odds) / s_value
OptimalStake(outcome, total_bankroll, s_value, round_stakes) ==
    RoundStake(FDiv(FDiv(total_bankroll, outcome.odds), s_value), round_stakes)

\* calculate_optimal_stakes that raises only if s_value > 1.0
calculate_optimal_stakes_gt(outcomes, total_bankroll, s_value, round_stakes) ==
    IF FLt(One, s_value) THEN Raise("ValueError")
    ELSE IF outcomes # <<>> /\ (FIsZero(s_value)
                \/ \E i \in 1..Len(outcomes) : FIsZero(outcomes[i].odds))
    THEN Raise("ZeroDivisionError")
    ELSE IF round_stakes /\ \E i \in 1..Len(outcomes) :
                FIsInf(FDiv(FDiv(total_bankroll, outcomes[i].odds), s_value))
    THEN Raise("OverflowError")
    ELSE Return([i \in 1..Len(outcomes) |->
            OptimalStake(outcomes[i], total_bankroll, s_value, round_stakes)])

\* calculate_optimal_stakes that returns the stakes last outcome first
calculate_optimal_stakes_reversed(outcomes, total_bankroll, s_value, round_stakes) ==
    IF FLe(One, s_value) THEN Raise("ValueError")
    ELSE IF outcomes # <<>> /\ (FIsZero(s_value)
                \/ \E i \in 1..Len(outcomes) : FIsZero(outcomes[i].odds))
    THEN Raise("ZeroDivisionError")
    ELSE IF round_stakes /\ \E i \in 1..Len(outcomes) :
                FIsInf(FDiv(FDiv(total_bankroll, outcomes[i].odds), s_value))
    THEN Raise("OverflowError")
    ELSE Return([i \in 1..Len(outcomes) |->
            OptimalStake(outcomes[Len(outcomes) + 1 - i], total_bankroll,
                         s_value, round_stakes)])

\* calculate_optimal_stakes(outcomes, total_bankroll, s_value, round_stakes);
\* round() of an infinite stake raises OverflowError
calculate_optimal_stakes(outcomes, total_bankroll, s_value, round_stakes) ==
    IF FLe(One, s_value) THEN Raise("ValueError")
    ELSE IF outcomes # <<>> /\ (FIsZero(s_value)
                \/ \E i \in 1..Len(outcomes) : FIsZero(outcomes[i].odds))
    THEN Raise("ZeroDivisionError")
    ELSE IF round_stakes /\ \E i \in 1..Len(outcomes) :
                FIsInf(FDiv(FDiv(total_bankroll, outcomes[i].odds), s_value))
    THEN Raise("OverflowError")
    ELSE Return([i \in 1..Len(outcomes) |->
            OptimalStake(outcomes[i], total_bankroll, s_value, round_stakes)])

\* calculate_guaranteed_profit(total_bankroll, s_value)
calculate_guaranteed_profit(total_bankroll, s_value) ==
    IF FLe(One, s_value) THEN FZero
    ELSE FMul(total_bankroll, FSub(One, s_value))

\* calculate_roi that returns the fraction profit / total_investment
calculate_roi_fraction(profit, total_investment) ==
    IF FLe(total_investment, FZero) THEN FZero
    ELSE FDiv(profit, total_investment)

\* calculate_roi(profit, total_investment)
calculate_roi(profit, total_investment) ==
    IF FLe(total_investment, FZero) THEN FZero
    ELSE FMul(FDiv(profit, total_investment), Hundred)

\* calculate_payout(stake, odds)
calculate_payout(stake, odds) == FMul(stake, odds)

\* sum(stakes) of int stakes
RECURSIVE SumInts(_)
SumInts(stakes) == IF stakes = <<>> THEN 0 ELSE stakes[1] + SumInts(Tail(stakes))

\* The ArbitrageOpportunity with profit_margin = 1 - s_value, a fraction
\* instead of a percentage
OpportunityWithProfitAsFraction(event_name, outcomes, s_value, stakes, actual_investment, profit) ==
    Return([kind                 |-> "ArbitrageOpportunity",
            event_name           |-> event_name,
            outcomes             |-> outcomes,
            arbitrage_percentage |-> s_value,
            profit_margin        |-> FSub(One, s_value),
            total_bankroll       |-> actual_investment,
            stakes               |-> stakes,
            guaranteed_profit    |-> profit,
            roi                  |-> calculate_roi(profit, FInt(actual_investment))])

\* create_arbitrage_opportunity, steps 3 and 4: roi, profit_margin and the
\* ArbitrageOpportunity.  The stakes and their sum are ints; an int meeting
\* a float in an operation is converted to float.
OpportunityWithProfit(event_name, outcomes, s_value, stakes, actual_investment, profit) ==
    Return([kind                 |-> "ArbitrageOpportunity",
            event_name           |-> event_name,
            outcomes             |-> outcomes,
            arbitrage_percentage |-> s_value,
            profit_margin        |-> FMul(FSub(One, s_value), Hundred),
            total_bankroll       |-> actual_investment,
            stakes               |-> stakes,
            guaranteed_profit    |-> profit,
            roi                  |-> calculate_roi(profit, FInt(actual_investment))])

\* step 3: profit = calculate_guaranteed_profit(actual_investment, s_value)
OpportunityWithInvestment(event_name, outcomes, s_value, stakes, actual_investment) ==
    OpportunityWithProfit(event_name, outcomes, s_value, stakes, actual_investment,
        calculate_guaranteed_profit(FInt(actual_investment), s_value))

\* step 3: actual_investment = sum(stakes); an exception of step 2 propagates
OpportunityWithStakes(event_name, outcomes, s_value, staked) ==
    IF staked.raised # "none" THEN staked
    ELSE OpportunityWithInvestment(event_name, outcomes, s_value, staked.value,
                                   SumInts(staked.value))

\* create_arbitrage_opportunity that reports the requested bankroll, not
\* the sum of the rounded stakes, as the investment
OpportunityForRequestedBankroll(event_name, outcomes, total_bankroll, detected) ==
    IF ~detected[1] THEN Return([kind |-> "None"])
    ELSE LET staked == calculate_optimal_stakes(outcomes, total_bankroll,
                                                detected[2], TRUE)
         IN  IF staked.raised # "none" THEN staked
             ELSE OpportunityWithInvestment(event_name, outcomes, detected[2],
                                            staked.value, PyRound(total_bankroll))

\* step 1: if not is_arb: return None;
\* step 2: stakes = calculate_optimal_stakes(outcomes, total_bankroll, s_value)
OpportunityIfDetected(event_name, outcomes, total_bankroll, detected) ==
    IF ~detected[1] THEN Return([kind |-> "None"])
    ELSE OpportunityWithStakes(event_name, outcomes, detected[2],
            calculate_optimal_stakes(outcomes, total_bankroll, detected[2], TRUE))

\* create_arbitrage_opportunity(event_name, outcomes, total_bankroll):
\* None, or the ArbitrageOpportunity
create_arbitrage_opportunity(event_name, outcomes, total_bankroll) ==
    OpportunityIfDetected(event_name, outcomes, total_bankroll,
                          detect_arbitrage(outcomes))

FMax(x, y) == IF FLt(x, y) THEN y ELSE x
FMin(x, y) == IF FLt(y, x) THEN y ELSE x

\* max(payouts) and min(payouts) of a non-empty list
RECURSIVE MaxPayout(_)
MaxPayout(payouts) ==
    IF Len(payouts) = 1 THEN payouts[1]
    ELSE FMax(payouts[1], MaxPayout(Tail(payouts)))

RECURSIVE MinPayout(_)
MinPayout(payouts) ==
    IF Len(payouts) = 1 THEN payouts[1]
    ELSE FMin(payouts[1], MinPayout(Tail(payouts)))

\* is_valid = (max_payout - min_payout) < 1.0
PayoutVerdictLt(max_payout, min_payout) ==
    Return(<<FLt(FSub(max_payout, min_payout), One), max_payout>>)

\* is_valid = (max_payout - min_payout) <= 1.0; return is_valid, max_payout
PayoutVerdict(max_payout, min_payout) ==
    Return(<<FLe(FSub(max_payout, min_payout), One), max_payout>>)

\* max() of an empty list raises ValueError
VerifyPayouts(payouts) ==
    IF payouts = <<>> THEN Raise("ValueError")
    ELSE PayoutVerdict(MaxPayout(payouts), MinPayout(payouts))

\* verify_arbitrage_payout(stakes, outcomes) -> (is_valid, expected_payout),
\* the stakes as the floats calculate_payout multiplies
verify_arbitrage_payout(stakes, outcomes) ==
    IF Len(stakes) # Len(outcomes) THEN Return(<<FALSE, FZero>>)
    ELSE VerifyPayouts([i \in 1..Len(stakes) |->
                            calculate_payout(stakes[i], outcomes[i].odds)])

\* --------------------------------------------------------------------------
\* src/scanner.py, src/scanner_real_api.py and src/api_server.py: the
\* aggregation of the outcomes received for one event.  What a scan of an
\* event did: the outcome lists it passed to create_arbitrage_opportunity
\* and the opportunities it displayed and counted, or cached
\* --------------------------------------------------------------------------

Scanned(engine_calls, opportunities) ==
    Return([kind |-> "Scanned", engine_calls |-> engine_calls,
            opportunities |-> opportunities])

\* The results up to the first exception only
RECURSIVE ReceivedOutcomesUntilFailure(_)
ReceivedOutcomesUntilFailure(all_outcomes) ==
    IF all_outcomes = <<>> \/ Head(all_outcomes).raised # "none" THEN <<>>
    ELSE Head(all_outcomes).value \o ReceivedOutcomesUntilFailure(Tail(all_outcomes))

\* The results asyncio.gather returned, in source order, without the
\* exceptions: for source_outcomes in all_outcomes ... for outcome in ...
RECURSIVE ReceivedOutcomes(_)
ReceivedOutcomes(all_outcomes) ==
    IF all_outcomes = <<>> THEN <<>>
    ELSE (IF Head(all_outcomes).raised # "none" THEN <<>>
          ELSE Head(all_outcomes).value) \o ReceivedOutcomes(Tail(all_outcomes))

\* The keys of outcomes_by_market from outcome i on: a dict keeps its keys
\* in the order of their first insertion
RECURSIVE MarketKeys(_, _)
MarketKeys(outcomes, i) ==
    IF i > Len(outcomes) THEN <<>>
    ELSE (IF \E j \in 1..(i - 1) : outcomes[j].market = outcomes[i].market
          THEN <<>> ELSE <<outcomes[i].market>>) \o MarketKeys(outcomes, i + 1)

\* outcomes_by_market[market]: the outcomes of the market, in arrival order
MarketGroup(outcomes, market) == SelectSeq(outcomes, LAMBDA o : o.market = market)

\* max keeps the later outcome only if its key is greater or equal
PickGreaterOrEqual(best, outcome) ==
    IF FLe(best.odds, outcome.odds) THEN outcome ELSE best

\* max keeps the later outcome only if its key is strictly greater
PickGreater(best, outcome) ==
    IF FLt(best.odds, outcome.odds) THEN outcome ELSE best

\* max(outcomes, key=lambda x: x.odds) over the first n outcomes
RECURSIVE MaxByOdds(_, _)
MaxByOdds(outcomes, n) ==
    IF n = 1 THEN outcomes[1]
    ELSE PickGreater(MaxByOdds(outcomes, n - 1), outcomes[n])

BestOfMarket(group) == MaxByOdds(group, Len(group))

\* if arb: display it and count it, or cache it.  propagate: the call is
\* outside any try block, so what the engine raises leaves the scan
ScanChecked(best_outcomes, created, propagate) ==
    IF created.raised # "none"
    THEN (IF propagate THEN created ELSE Scanned(<<best_outcomes>>, <<>>))
    ELSE IF created.value.kind = "None" THEN Scanned(<<best_outcomes>>, <<>>)
    ELSE Scanned(<<best_outcomes>>, <<created.value>>)

\* arb = create_arbitrage_opportunity(event_name, best_outcomes, bankroll)
CheckBest(event_name, best_outcomes, bankroll, propagate) ==
    ScanChecked(best_outcomes,
                create_arbitrage_opportunity(event_name, best_outcomes, bankroll),
                propagate)

\* ArbitrageScanner._check_three_way_arbitrage: the best outcome of each
\* market, the markets in the order of the dict's keys
check_three_way_arbitrage(event_name, outcomes, markets, bankroll) ==
    IF Len(markets) # 3 THEN Scanned(<<>>, <<>>)
    ELSE CheckBest(event_name,
                   [i \in 1..3 |-> BestOfMarket(MarketGroup(outcomes, markets[i]))],
                   bankroll, TRUE)

\* if len(outcomes_by_market) == 3: ...
ScanGrouped(event_name, outcomes, markets, bankroll) ==
    IF Len(markets) = 3
    THEN check_three_way_arbitrage(event_name, outcomes, markets, bankroll)
    ELSE Scanned(<<>>, <<>>)

ScanReceived(event_name, outcomes, bankroll) ==
    ScanGrouped(event_name, outcomes, MarketKeys(outcomes, 1), bankroll)

\* asyncio.gather returns once every task has settled
GatherFirstCompleted(tasks_of_scan) ==
    \E i \in 1..Len(tasks_of_scan) : tasks_of_scan[i].raised # "pending"

\* await asyncio.gather(*tasks, return_exceptions=True) returns once every
\* task has settled, with each task's result or exception
GatherDone(tasks_of_scan) ==
    \A i \in 1..Len(tasks_of_scan) : tasks_of_scan[i].raised # "pending"

\* ArbitrageScanner.scan_event, once the fetches have settled
ArbitrageScanner_scan_event(event_name, all_outcomes, bankroll) ==
    ScanReceived(event_name, ReceivedOutcomes(all_outcomes), bankroll)

CanonicalMarkets == <<"Home Win", "Draw", "Away Win">>

\* for market in ["Home Win", "Draw", "Away Win"]:
\*     if market in outcomes_by_market: best_outcomes.append(max(...))
RECURSIVE BestOfCanonicalMarkets(_, _)
BestOfCanonicalMarkets(outcomes, k) ==
    IF k > Len(CanonicalMarkets) THEN <<>>
    ELSE (IF \E i \in 1..Len(outcomes) : outcomes[i].market = CanonicalMarkets[k]
          THEN <<BestOfMarket(MarketGroup(outcomes, CanonicalMarkets[k]))>>
          ELSE <<>>) \o BestOfCanonicalMarkets(outcomes, k + 1)

\* if len(best_outcomes) == 3: ...; the call is inside a try block
CheckCanonical(event_name, best_outcomes, bankroll) ==
    IF Len(best_outcomes) = 3
    THEN CheckBest(event_name, best_outcomes, bankroll, FALSE)
    ELSE Scanned(<<>>, <<>>)

\* RealAPIScanner.scan_event, from the outcomes of the client on
RealAPIScanner_scan_event(event_name, all_outcomes, bankroll) ==
    IF all_outcomes = <<>> THEN Scanned(<<>>, <<>>)
    ELSE IF Len(MarketKeys(all_outcomes, 1)) >= 3
    THEN CheckCanonical(event_name, BestOfCanonicalMarkets(all_outcomes, 1), bankroll)
    ELSE Scanned(<<>>, <<>>)

\* scan_for_opportunities (the REST scan): what it does with one event
scan_for_opportunities(event_name, all_outcomes, bankroll) ==
    IF all_outcomes = <<>> THEN Scanned(<<>>, <<>>)
    ELSE IF Len(MarketKeys(all_outcomes, 1)) >= 3
    THEN CheckCanonical(event_name, BestOfCanonicalMarkets(all_outcomes, 1), bankroll)
    ELSE Scanned(<<>>, <<>>)

\* --------------------------------------------------------------------------
\* The callers of the engine (the tests, the scanners): one call at a time,
\* its arguments in call and what it produced in ret; history holds the
\* caller's earlier calls with their results, which later calls may use.
\* --------------------------------------------------------------------------

\* fetches: the fetch_odds tasks of ArbitrageScanner.scan_event.
\* scan_in_progress, opportunities_cache, last_scan_time: the globals of
\* api_server; tasks: its invocations of scan_for_opportunities; now: its
\* clock
VARIABLES call, ret, history, fetches,
          scan_in_progress, opportunities_cache, last_scan_time, tasks, now

serverVars == <<scan_in_progress, opportunities_cache, last_scan_time, tasks, now>>
callerVars == <<call, ret, history, fetches>>
vars == <<call, ret, history, fetches,
          scan_in_progress, opportunities_cache, last_scan_time, tasks, now>>

\* Longest outcome list passed to the engine
MaxOutcomes == 3

\* The odds on offer, in tenths: 0.5 and 1.0 are not viable prices; 2.1, 3.5
\* and 4.2 are the odds of the documented example
OddsTenths == {5, 10, 21, 35, 42}

BookmakerNames == <<"TOTO", "Bet365", "Unibet">>
MarketNames == <<"Home Win", "Draw", "Away Win">>

\* The outcome with odds of t tenths in position i of a list: from the i-th
\* bookmaker, for the i-th market
OutcomeAt(i, t) ==
    Outcome(BookmakerNames[((i - 1) % 3) + 1], FLit(t, 10),
            MarketNames[((i - 1) % 3) + 1])

OutcomeLists ==
    UNION {{[i \in 1..n |-> OutcomeAt(i, t[i])] : t \in [1..n -> OddsTenths]} :
                n \in 0..MaxOutcomes}

\* Requested bankrolls, in whole currency units
BankrollUnits == {-10, 0, 1, 10, 1000}

\* The bankrolls a caller may request: bankroll is any float
Bankrolls == {FInt(b) : b \in BankrollUnits} \cup {FInf}
StakeBankrollUnits == {10, 1000}

\* s_value arguments of direct calls of the allocator, as decimal literals
SValueLiterals == {<<0, 1>>, <<9, 10>>, <<1, 1>>, <<11, 10>>}

Pending == [raised |-> "pending"]

DetectCalls == {[fn |-> "detect_arbitrage", outcomes |-> o] : o \in OutcomeLists}

StakesCalls ==
    {[fn |-> "calculate_optimal_stakes", outcomes |-> o,
      total_bankroll |-> FInt(1000), s_value |-> FLit(sv[1], sv[2]),
      round_stakes |-> r] :
        o \in OutcomeLists, sv \in SValueLiterals, r \in BOOLEAN}

CreateCalls ==
    {[fn |-> "create_arbitrage_opportunity", event_name |-> "Ajax vs PSV",
      outcomes |-> o, total_bankroll |-> b] :
        o \in OutcomeLists, b \in Bankrolls}

\* Direct calls of calculate_guaranteed_profit: bankrolls in whole units and
\* s_value literals -0.5, 0, 0.95 (the test's), 1.0 and 1.1
ProfitBankrollUnits == {-10, 0, 1000}
ProfitSValueLiterals == {<<-1, 2>>, <<0, 1>>, <<95, 100>>, <<1, 1>>, <<11, 10>>}

ProfitCalls ==
    {[fn |-> "calculate_guaranteed_profit", total_bankroll |-> FInt(b),
      s_value |-> FLit(sv[1], sv[2])] :
        b \in ProfitBankrollUnits, sv \in ProfitSValueLiterals}

\* Direct calls of calculate_roi, profit and investment in whole units
RoiProfitUnits == {-5, 0, 50}
RoiInvestmentUnits == {-10, 0, 3, 1000}

RoiCalls ==
    {[fn |-> "calculate_roi", profit |-> FInt(p), total_investment |-> FInt(v)] :
        p \in RoiProfitUnits, v \in RoiInvestmentUnits}

\* Direct calls of verify_arbitrage_payout: stakes of 400, 600 and 600.5
\* (in halves of a unit) against odds 2.0 and 3.0, the two lists of any
\* lengths
VerifyStakeHalves == {800, 1200, 1201}
VerifyOddsTenths == {20, 30}

VerifyCalls ==
    {[fn |-> "verify_arbitrage_payout", stakes |-> st, outcomes |-> o] :
        st \in UNION {[1..n -> {FLit(h, 2) : h \in VerifyStakeHalves}] :
                         n \in 0..MaxOutcomes},
        o \in UNION {{[i \in 1..n |-> OutcomeAt(i, t[i])] :
                         t \in [1..n -> VerifyOddsTenths]} : n \in 0..MaxOutcomes}}

\* Most outcomes a scan receives for one event
MaxReceived == 4

\* What the sources deliver for an event: a market label with odds in
\* tenths, the k-th outcome to arrive coming from the k-th bookmaker
ScanMenu == {<<"Home Win", 21>>, <<"Home Win", 42>>, <<"Draw", 21>>,
             <<"Away Win", 42>>, <<"Draw No Bet", 42>>}
ScanBookmakers == <<"TOTO", "Bet365", "Unibet", "Pinnacle", "Betfair", "Bwin">>

ArrivingLists ==
    UNION {{[i \in 1..n |-> Outcome(ScanBookmakers[((i - 1) % 6) + 1],
                                    FLit(c[i][2], 10), c[i][1])] :
               c \in [1..n -> ScanMenu]} : n \in 0..MaxReceived}

\* What the fetches of two sources settle to, the first delivering the first
\* half of the outcomes; between them possibly a source whose fetch raises
GatheredFrom(arriving, failed) ==
    <<Return(SubSeq(arriving, 1, Len(arriving) \div 2))>>
        \o (IF failed THEN <<Raise("Exception")>> ELSE <<>>)
        \o <<Return(SubSeq(arriving, (Len(arriving) \div 2) + 1, Len(arriving)))>>

ScanCalls ==
    {[fn |-> "scan_event", site |-> "ArbitrageScanner", event_name |-> "Ajax vs PSV",
      all_outcomes |-> GatheredFrom(a, f), bankroll |-> FInt(1000)] :
        a \in ArrivingLists, f \in BOOLEAN}
    \cup {[fn |-> "scan_event", site |-> s, event_name |-> "Ajax vs PSV",
           all_outcomes |-> a, bankroll |-> FInt(1000)] :
             a \in ArrivingLists, s \in {"RealAPIScanner", "scan_for_opportunities"}}

\* tasks = [source.fetch_odds(event_id) for source in self.sources]: one
\* pending task per source
FetchTasks(c) ==
    IF c.fn = "scan_event" /\ c.site = "ArbitrageScanner"
    THEN [i \in 1..Len(c.all_outcomes) |-> Pending]
    ELSE <<>>

\* api_server as loaded: no scan yet, nothing cached
ServerLoaded ==
    /\ scan_in_progress = FALSE
    /\ opportunities_cache = <<>>
    /\ last_scan_time = [kind |-> "None"]
    /\ tasks = <<>>
    /\ now = 0

Init ==
    /\ call \in DetectCalls \cup StakesCalls \cup CreateCalls
                  \cup ProfitCalls \cup RoiCalls \cup VerifyCalls
                  \cup ScanCalls
    /\ ret = Pending
    /\ history = <<>>
    /\ fetches = FetchTasks(call)
    /\ ServerLoaded

\* One fetch_odds task of the scan settles: its source returns its outcomes,
\* or raises.  The tasks run concurrently and settle in any order
FetchSettles(i) ==
    /\ call.fn = "scan_event"
    /\ call.site = "ArbitrageScanner"
    /\ fetches[i] = Pending
    /\ fetches' = [fetches EXCEPT ![i] = call.all_outcomes[i]]
    /\ UNCHANGED <<call, ret, history, serverVars>>

\* detect_arbitrage adding each S to a total kept between calls
DetectArbitrageKeepingTotal ==
    /\ call.fn = "detect_arbitrage"
    /\ ret = Pending
    /\ ret' = IF history = <<>> \/ history[Len(history)].call.fn # "detect_arbitrage"
              THEN Return(detect_arbitrage(call.outcomes))
              ELSE Return(<<detect_arbitrage(call.outcomes)[1],
                           FAdd(history[Len(history)].ret.value[2],
                                detect_arbitrage(call.outcomes)[2])>>)
    /\ UNCHANGED <<call, history, fetches, serverVars>>

\* is_arb, s_value = detect_arbitrage(outcomes)
DetectArbitrage ==
    /\ call.fn = "detect_arbitrage"
    /\ ret = Pending
    /\ ret' = Return(detect_arbitrage(call.outcomes))
    /\ UNCHANGED <<call, history, fetches, serverVars>>

\* stakes = calculate_optimal_stakes(outcomes, total_bankroll, s_value, ...)
CalculateOptimalStakes ==
    /\ call.fn = "calculate_optimal_stakes"
    /\ ret = Pending
    /\ ret' = calculate_optimal_stakes(call.outcomes, call.total_bankroll,
                                       call.s_value, call.round_stakes)
    /\ UNCHANGED <<call, history, fetches, serverVars>>

\* arb = create_arbitrage_opportunity(event_name, outcomes, total_bankroll)
CreateArbitrageOpportunity ==
    /\ call.fn = "create_arbitrage_opportunity"
    /\ ret = Pending
    /\ ret' = create_arbitrage_opportunity(call.event_name, call.outcomes,
                                           call.total_bankroll)
    /\ UNCHANGED <<call, history, fetches, serverVars>>

\* is_valid, payout = verify_arbitrage_payout(stakes, outcomes)
VerifyArbitragePayout ==
    /\ call.fn = "verify_arbitrage_payout"
    /\ ret = Pending
    /\ ret' = verify_arbitrage_payout(call.stakes, call.outcomes)
    /\ UNCHANGED <<call, history, fetches, serverVars>>

\* profit = calculate_guaranteed_profit(total_bankroll, s_value)
CalculateGuaranteedProfit ==
    /\ call.fn = "calculate_guaranteed_profit"
    /\ ret = Pending
    /\ ret' = Return(calculate_guaranteed_profit(call.total_bankroll, call.s_value))
    /\ UNCHANGED <<call, history, fetches, serverVars>>

\* roi = calculate_roi(profit, investment)
CalculateRoi ==
    /\ call.fn = "calculate_roi"
    /\ ret = Pending
    /\ ret' = Return(calculate_roi(call.profit, call.total_investment))
    /\ UNCHANGED <<call, history, fetches, serverVars>>

\* scan_event from the return of "await asyncio.gather(...)" on: it groups
\* the results of the tasks and checks the event
ArbitrageScannerScanEvent ==
    /\ call.fn = "scan_event"
    /\ call.site = "ArbitrageScanner"
    /\ ret = Pending
    /\ GatherDone(fetches)
    /\ ret' = ArbitrageScanner_scan_event(call.event_name, fetches, call.bankroll)
    /\ UNCHANGED <<call, history, fetches, serverVars>>

\* await self.scan_event(event)
RealAPIScannerScanEvent ==
    /\ call.fn = "scan_event"
    /\ call.site = "RealAPIScanner"
    /\ ret = Pending
    /\ ret' = RealAPIScanner_scan_event(call.event_name, call.all_outcomes,
                                        call.bankroll)
    /\ UNCHANGED <<call, history, fetches, serverVars>>

\* the body of "for event in events" of scan_for_opportunities
RestScanEvent ==
    /\ call.fn = "scan_event"
    /\ call.site = "scan_for_opportunities"
    /\ ret = Pending
    /\ ret' = scan_for_opportunities(call.event_name, call.all_outcomes,
                                     call.bankroll)
    /\ UNCHANGED <<call, history, fetches, serverVars>>

\* A caller passes the S it got from detect_arbitrage on to the allocator,
\* as the tests and create_arbitrage_opportunity do
StakesForDetected(b, r) ==
    /\ call.fn = "detect_arbitrage"
    /\ ret # Pending
    /\ call' = [fn |-> "calculate_optimal_stakes", outcomes |-> call.outcomes,
                total_bankroll |-> FInt(b), s_value |-> ret.value[2],
                round_stakes |-> r]
    /\ ret' = Pending
    /\ history' = Append(history, [call |-> call, ret |-> ret])
    /\ UNCHANGED <<fetches, serverVars>>

\* A caller has the stakes it got from the allocator verified against the
\* same outcomes; calculate_payout takes an int stake as a float
VerifyStakes ==
    /\ call.fn = "calculate_optimal_stakes"
    /\ ret # Pending
    /\ ret.raised = "none"
    /\ call' = [fn |-> "verify_arbitrage_payout",
                stakes |-> [i \in 1..Len(ret.value) |->
                               IF call.round_stakes THEN FInt(ret.value[i])
                               ELSE ret.value[i]],
                outcomes |-> call.outcomes]
    /\ ret' = Pending
    /\ history' = Append(history, [call |-> call, ret |-> ret])
    /\ UNCHANGED <<fetches, serverVars>>

Next ==
    \/ \E i \in 1..Len(fetches) : FetchSettles(i)
    \/ DetectArbitrage
    \/ CalculateOptimalStakes
    \/ CreateArbitrageOpportunity
    \/ VerifyArbitragePayout
    \/ CalculateGuaranteedProfit
    \/ CalculateRoi
    \/ ArbitrageScannerScanEvent
    \/ RealAPIScannerScanEvent
    \/ RestScanEvent
    \/ \E b \in StakeBankrollUnits, r \in BOOLEAN : StakesForDetected(b, r)
    \/ VerifyStakes

Spec == Init /\ [][Next]_vars

\* --------------------------------------------------------------------------
\* api_server: the REST scan.  The handlers and scan_for_opportunities run on
\* one event loop, so each runs without interruption from one await to the
\* next.  A task is an invocation of scan_for_opportunities, at one of:
\* "created" (scheduled, not yet run), "listing" (awaiting
\* get_available_events), "closing" (awaiting client.close), "returned" (it
\* found a scan in progress), "done"
\* --------------------------------------------------------------------------

\* Most POST /api/scan requests that start a background task
MaxTriggers == 2

\* Most events get_available_events returns
MaxEvents == 2

\* bankroll: float = 1000.0
DefaultBankroll == FInt(1000)

\* The events on offer, each with what _parse_odds makes of its _game_data:
\* the outcomes of two bookmakers, or a KeyError for a game without prices
ListedEvent(name, parsed) == [name |-> name, parsed |-> parsed]

ParsedOdds(home, draw, away) ==
    Return(<<Outcome("unibet_nl", FLit(home, 10), "Home Win"),
             Outcome("bet365", FLit(draw, 10), "Draw"),
             Outcome("unibet_nl", FLit(away, 10), "Away Win"),
             Outcome("toto", FLit(21, 10), "Away Win")>>)

EventMenu ==
    {ListedEvent("Ajax vs PSV", ParsedOdds(35, 42, 42)),
     ListedEvent("Feyenoord vs AZ", ParsedOdds(42, 42, 42)),
     ListedEvent("Arsenal vs Chelsea", ParsedOdds(21, 21, 21)),
     ListedEvent("Bayern vs Dortmund", Raise("KeyError"))}

EventLists == UNION {[1..n -> EventMenu] : n \in 0..MaxEvents}

BookmakerUrls ==
    [b \in {"unibet_nl", "bet365"} |->
        IF b = "unibet_nl" THEN <<"https://www.unibet.nl/">>
        ELSE <<"https://www.bet365.com/">>]

\* bookmaker_urls.get(bookmaker_key, "https://www.google.com/search?q=" +
\* bookmaker_key); a URL is the sequence of the strings it is joined from
get_bookmaker_url(bookmaker_key) ==
    IF bookmaker_key \in DOMAIN BookmakerUrls THEN BookmakerUrls[bookmaker_key]
    ELSE <<"https://www.google.com/search?q=", bookmaker_key>>

\* opp_dict, with datetime.now() read as t
OppDict(arb, t) ==
    [event_name |-> arb.event_name,
     profit_margin |-> arb.profit_margin,
     guaranteed_profit |-> arb.guaranteed_profit,
     roi |-> arb.roi,
     total_investment |-> arb.total_bankroll,
     bets |-> [i \in 1..Len(arb.outcomes) |->
                  [bookmaker |-> arb.outcomes[i].bookmaker,
                   market |-> arb.outcomes[i].market,
                   odds |-> arb.outcomes[i].odds,
                   stake |-> arb.stakes[i],
                   bet_url |-> get_bookmaker_url(arb.outcomes[i].bookmaker)]],
     timestamp |-> t]

\* opportunities_cache.append(opp_dict) for what the event's check found
CacheScanned(cache, scanned, t) ==
    cache \o [i \in 1..Len(scanned.value.opportunities) |->
                 OppDict(scanned.value.opportunities[i], t)]

\* What the body of "for event in events" finds for each event on offer,
\* with the default bankroll: the check of its outcomes, or the exception of
\* _parse_odds
ScannedOnOffer ==
    [event \in EventMenu |->
        IF event.parsed.raised # "none" THEN event.parsed
        ELSE scan_for_opportunities(event.name, event.parsed.value,
                                    DefaultBankroll)]

\* The body of "for event in events": an event whose processing raises is
\* reported and skipped
ProcessEvent(cache, event, t) ==
    IF ScannedOnOffer[event].raised # "none" THEN cache
    ELSE CacheScanned(cache, ScannedOnOffer[event], t)

RECURSIVE ScanEvents(_, _, _)
ScanEvents(cache, events, t) ==
    IF events = <<>> THEN cache
    ELSE ScanEvents(ProcessEvent(cache, Head(events), t), Tail(events), t)

\* d put behind the entries of a descending list whose profit_margin is not
\* less than its own
RECURSIVE InsertByProfitMargin(_, _)
InsertByProfitMargin(sorted, d) ==
    IF sorted = <<>> THEN <<d>>
    ELSE IF FLt(Head(sorted).profit_margin, d.profit_margin) THEN <<d>> \o sorted
    ELSE <<Head(sorted)>> \o InsertByProfitMargin(Tail(sorted), d)

\* opportunities_cache.sort(key=lambda x: x["profit_margin"], reverse=True):
\* a stable sort, entries of equal margin keep their order
RECURSIVE SortByProfitMargin(_, _)
SortByProfitMargin(cache, n) ==
    IF n = 0 THEN <<>>
    ELSE InsertByProfitMargin(SortByProfitMargin(cache, n - 1), cache[n])

SortedCache(cache) == SortByProfitMargin(cache, Len(cache))

\* asyncio.create_task(scan_for_opportunities()) of startup_event
StartupEvent ==
    /\ tasks = <<>>
    /\ tasks' = <<"created">>
    /\ UNCHANGED <<callerVars, scan_in_progress, opportunities_cache,
                   last_scan_time, now>>

\* POST /api/scan: trigger_scan answers "Scan already in progress", or adds
\* the background task
TriggerScan ==
    /\ tasks # <<>>
    /\ Len(tasks) <= MaxTriggers
    /\ tasks' = IF scan_in_progress THEN tasks ELSE Append(tasks, "created")
    /\ UNCHANGED <<callerVars, scan_in_progress, opportunities_cache,
                   last_scan_time, now>>

\* A scan starts whatever scan_in_progress is
ScanStartUnguarded(t) ==
    /\ t \in 1..Len(tasks)
    /\ tasks[t] = "created"
    /\ scan_in_progress' = TRUE
    /\ opportunities_cache' = <<>>
    /\ tasks' = [tasks EXCEPT ![t] = "listing"]
    /\ UNCHANGED <<callerVars, last_scan_time, now>>

\* scan_for_opportunities up to its first await: it returns if a scan is in
\* progress; else it sets scan_in_progress, empties the cache and builds the
\* client, whose constructor raises ValueError when no API key is set:
\* "finally" then resets scan_in_progress in the same step
ScanStart(t) ==
    /\ t \in 1..Len(tasks)
    /\ tasks[t] = "created"
    /\ IF scan_in_progress
       THEN /\ tasks' = [tasks EXCEPT ![t] = "returned"]
            /\ UNCHANGED <<scan_in_progress, opportunities_cache>>
       ELSE /\ opportunities_cache' = <<>>
            /\ \/ /\ scan_in_progress' = TRUE
                  /\ tasks' = [tasks EXCEPT ![t] = "listing"]
               \/ /\ scan_in_progress' = FALSE
                  /\ tasks' = [tasks EXCEPT ![t] = "done"]
    /\ UNCHANGED <<callerVars, last_scan_time, now>>

\* get_available_events raises and scan_in_progress stays set
EventsListedNoFinally(t) ==
    /\ t \in 1..Len(tasks)
    /\ tasks[t] = "listing"
    /\ \/ /\ tasks' = [tasks EXCEPT ![t] = "done"]
          /\ UNCHANGED <<scan_in_progress, opportunities_cache,
                         last_scan_time, now>>
       \/ \E events \in EventLists :
             /\ tasks' = [tasks EXCEPT ![t] = "closing"]
             /\ last_scan_time' = [kind |-> "datetime", at |-> now]
             /\ now' = now + 1
             /\ opportunities_cache'
                    = SortedCache(ScanEvents(opportunities_cache, events, now))
             /\ UNCHANGED scan_in_progress
    /\ UNCHANGED callerVars

\* "events = await client.get_available_events()" ends.  With an exception:
\* "except" reports it and "finally" resets scan_in_progress.  With events:
\* every event is processed, the cache sorted and last_scan_time set, up to
\* "await client.close()"
EventsListed(t) ==
    /\ t \in 1..Len(tasks)
    /\ tasks[t] = "listing"
    /\ \/ /\ scan_in_progress' = FALSE
          /\ tasks' = [tasks EXCEPT ![t] = "done"]
          /\ UNCHANGED <<opportunities_cache, last_scan_time, now>>
       \/ \E events \in EventLists :
             /\ tasks' = [tasks EXCEPT ![t] = "closing"]
             /\ last_scan_time' = [kind |-> "datetime", at |-> now]
             /\ now' = now + 1
             /\ opportunities_cache'
                    = SortedCache(ScanEvents(opportunities_cache, events, now))
             /\ UNCHANGED scan_in_progress
    /\ UNCHANGED callerVars

\* "await client.close()" ends, returning or raising: "finally" resets
\* scan_in_progress
ClientClosed(t) ==
    /\ t \in 1..Len(tasks)
    /\ tasks[t] = "closing"
    /\ scan_in_progress' = FALSE
    /\ tasks' = [tasks EXCEPT ![t] = "done"]
    /\ UNCHANGED <<callerVars, opportunities_cache, last_scan_time, now>>

\* uvicorn.run(app, ...): the server, with no caller of the engine
ServerInit ==
    /\ call = [fn |-> "uvicorn.run"]
    /\ ret = Pending
    /\ history = <<>>
    /\ fetches = <<>>
    /\ ServerLoaded

ServerNext ==
    \/ StartupEvent
    \/ TriggerScan
    \/ \E t \in 1..(MaxTriggers + 1) : ScanStart(t)
    \/ \E t \in 1..(MaxTriggers + 1) : EventsListed(t)
    \/ \E t \in 1..(MaxTriggers + 1) : ClientClosed(t)

\* Every awaited call eventually returns or raises
ServerSpec ==
    /\ ServerInit
    /\ [][ServerNext]_vars
    /\ \A t \in 1..(MaxTriggers + 1) :
          WF_vars(EventsListed(t)) /\ WF_vars(ClientClosed(t))

\* --------------------------------------------------------------------------
\* A test process: it calls the engine functions one after another, any of
\* them after any other and on inputs it has used before; history holds the
\* calls it has made, with their results
\* --------------------------------------------------------------------------

\* Most calls the process has behind it when it makes another
MaxEarlierCalls == 2

\* payout = calculate_payout(stake, odds), with the test's 100.0 and 2.5
PayoutCalls ==
    {[fn |-> "calculate_payout", stake |-> FInt(100), odds |-> FLit(25, 10)]}

\* The outcome lists the process calls with: the documented example, and odds
\* 3.5 and 4.2, an arbitrage
RepeatedOutcomeLists ==
    {<<OutcomeAt(1, 21), OutcomeAt(2, 35), OutcomeAt(3, 42)>>,
     <<OutcomeAt(1, 35), OutcomeAt(2, 42)>>}

\* The calls the process makes: those of the callers above on these lists,
\* with s_value 0.9 and bankroll 1000, the tests' profit and roi calls, and
\* stakes [600, 400] verified against odds 2.0 and 3.0
RepeatedCalls ==
    {c \in DetectCalls : c.outcomes \in RepeatedOutcomeLists}
    \cup {c \in StakesCalls : /\ c.outcomes \in RepeatedOutcomeLists
                              /\ c.s_value = FLit(9, 10)}
    \cup {c \in CreateCalls : /\ c.outcomes \in RepeatedOutcomeLists
                              /\ c.total_bankroll = FInt(1000)}
    \cup {c \in ProfitCalls : /\ c.total_bankroll = FInt(1000)
                              /\ c.s_value = FLit(95, 100)}
    \cup {c \in RoiCalls : c.profit = FInt(50) /\ c.total_investment = FInt(1000)}
    \cup {c \in VerifyCalls : /\ c.stakes = <<FInt(600), FInt(400)>>
                              /\ c.outcomes = <<OutcomeAt(1, 20), OutcomeAt(2, 30)>>}
    \cup PayoutCalls

\* payout = calculate_payout(stake, odds)
CalculatePayout ==
    /\ call.fn = "calculate_payout"
    /\ ret = Pending
    /\ ret' = Return(calculate_payout(call.stake, call.odds))
    /\ UNCHANGED <<call, history, fetches, serverVars>>

\* The process goes on to its next call
CallNext(c) ==
    /\ ret # Pending
    /\ Len(history) < MaxEarlierCalls
    /\ call' = c
    /\ ret' = Pending
    /\ history' = Append(history, [call |-> call, ret |-> ret])
    /\ UNCHANGED <<fetches, serverVars>>

TestInit ==
    /\ call \in RepeatedCalls
    /\ ret = Pending
    /\ history = <<>>
    /\ fetches = <<>>
    /\ ServerLoaded

TestNext ==
    \/ DetectArbitrage
    \/ CalculateOptimalStakes
    \/ CreateArbitrageOpportunity
    \/ VerifyArbitragePayout
    \/ CalculateGuaranteedProfit
    \/ CalculateRoi
    \/ CalculatePayout
    \/ \E c \in RepeatedCalls : CallNext(c)

TestSpec == TestInit /\ [][TestNext]_vars

\* --------------------------------------------------------------------------
\* Properties of the engine.  They are stated with the float operations
\* themselves, not with the engine's operators, so that each one compares
\* what a call returned with an independent calculation.
\* --------------------------------------------------------------------------

\* The call fn has returned or raised
Returned(fn) == call.fn = fn /\ ret # Pending

\* create_arbitrage_opportunity has returned an ArbitrageOpportunity
Opportunity ==
    /\ Returned("create_arbitrage_opportunity")
    /\ ret.raised = "none"
    /\ ret.value.kind = "ArbitrageOpportunity"

\* calculate_optimal_stakes has returned stakes
StakesReturned == Returned("calculate_optimal_stakes") /\ ret.raised = "none"

\* 1/odds_1 + ... + 1/odds_n, added in list order
RECURSIVE ReciprocalSum(_, _)
ReciprocalSum(outcomes, n) ==
    IF n = 0 THEN FZero
    ELSE FAdd(ReciprocalSum(outcomes, n - 1), FDiv(One, outcomes[n].odds))

\* (bankroll / odds) / s_value
ExactStake(bankroll, odds, s_value) == FDiv(FDiv(bankroll, odds), s_value)

FAbs(a) == IF FIsZero(a) THEN a ELSE [a EXCEPT !.s = 0]

Half == FDiv(One, FInt(2))

\* The odds 2.1 (Home Win), 3.5 (Draw), 4.2 (Away Win) of Scenario A
ScenarioA == <<OutcomeAt(1, 21), OutcomeAt(2, 35), OutcomeAt(3, 42)>>

ValidOutcomes(outcomes) ==
    /\ Len(outcomes) >= 2
    /\ \A i \in 1..Len(outcomes) : FLt(One, outcomes[i].odds)

\* C1: every ArbitrageOpportunity returned for a positive requested bankroll
\* profits whichever outcome occurs: for every leg i,
\* stakes[i] * outcomes[i].odds > total_bankroll, the sum of the stakes.
C1_EveryLegProfits ==
    (Opportunity /\ FLt(FZero, call.total_bankroll)) =>
        /\ ret.value.total_bankroll = SumInts(ret.value.stakes)
        /\ \A i \in 1..Len(ret.value.stakes) :
              FLt(FInt(ret.value.total_bankroll),
                  FMul(FInt(ret.value.stakes[i]), ret.value.outcomes[i].odds))

VerifiedDetectedStakes ==
    /\ Returned("verify_arbitrage_payout")
    /\ Len(history) = 2
    /\ history[1].call.fn = "detect_arbitrage"
    /\ history[1].ret.value[1]
    /\ history[2].call.round_stakes

\* C3: for an outcome set detect_arbitrage reports as arbitrage, the rounded
\* stakes calculate_optimal_stakes returns for its S have per-leg payouts
\* stake_i * odds_i within 1 currency unit of each other, and
\* verify_arbitrage_payout(stakes, outcomes) returns is_valid = true.
C3_StakeInvariant ==
    VerifiedDetectedStakes =>
        /\ \A i, j \in 1..Len(call.stakes) :
              FLe(FSub(FMul(call.stakes[i], call.outcomes[i].odds),
                       FMul(call.stakes[j], call.outcomes[j].odds)), One)
        /\ ret.raised = "none"
        /\ ret.value[1]

C5_InvalidInputIsNegative ==
    (Returned("detect_arbitrage") /\ ~ValidOutcomes(call.outcomes)) =>
        ret = Return(<<FALSE, FZero>>)

\* detect_arbitrage has returned for a list of 2 or more outcomes in which
\* one has odds exactly 1.0 and another has viable odds
C5_OddsExactlyOne ==
    /\ Returned("detect_arbitrage")
    /\ Len(call.outcomes) >= 2
    /\ \E i, j \in 1..Len(call.outcomes) :
          call.outcomes[i].odds = FInt(1) /\ FLt(One, call.outcomes[j].odds)

\* C6: every call of calculate_optimal_stakes with s_value >= 1.0 (exactly
\* 1.0 included, either rounding mode, any outcome list) raises the
\* precondition error and returns no stakes.
C6_NoStakesWithoutArbitrage ==
    (Returned("calculate_optimal_stakes") /\ FLe(One, call.s_value)) =>
        ret = Raise("ValueError")

\* calculate_optimal_stakes was called on outcomes with s_value exactly 1.0
C6_SValueExactlyOne ==
    /\ Returned("calculate_optimal_stakes")
    /\ call.s_value = FInt(1)
    /\ call.outcomes # <<>>

\* Unrounded stakes were returned for some 0 < s_value < 1.0
UnroundedStakes ==
    /\ StakesReturned
    /\ ~call.round_stakes
    /\ FLt(FZero, call.s_value)
    /\ FLt(call.s_value, One)

\* C7 as claimed: with rounding disabled and 0 < s_value < 1.0 each stake
\* is (bankroll / odds_i) / s_value and every leg's payout stake_i * odds_i
\* is exactly bankroll / s_value.
C7_PayoutsExactlyEqual ==
    UnroundedStakes =>
        \A i \in 1..Len(call.outcomes) :
            /\ ret.value[i] = ExactStake(call.total_bankroll,
                                         call.outcomes[i].odds, call.s_value)
            /\ FMul(ret.value[i], call.outcomes[i].odds)
                   = FDiv(call.total_bankroll, call.s_value)

\* 2^-50
PayoutTolerance == FDiv(One, FMul(FInt(2 ^ 25), FInt(2 ^ 25)))

\* C7 as amended: with rounding disabled and 0 < s_value < 1.0 each stake
\* is the float (bankroll / odds_i) / s_value, and every leg's payout
\* stake_i * odds_i equals bankroll / s_value up to floating-point rounding:
\* within a relative error of 2^-50.
C7_PayoutsEqualUpToRounding ==
    UnroundedStakes =>
        \A i \in 1..Len(call.outcomes) :
            /\ ret.value[i] = ExactStake(call.total_bankroll,
                                         call.outcomes[i].odds, call.s_value)
            /\ FLe(FAbs(FSub(FMul(ret.value[i], call.outcomes[i].odds),
                             FDiv(call.total_bankroll, call.s_value))),
                   FMul(PayoutTolerance,
                        FAbs(FDiv(call.total_bankroll, call.s_value))))

\* Unrounded stakes were returned of which two legs pay out differently
C7_PayoutsDiffer ==
    /\ UnroundedStakes
    /\ \E i, j \in 1..Len(call.outcomes) :
          FMul(ret.value[i], call.outcomes[i].odds)
              # FMul(ret.value[j], call.outcomes[j].odds)

\* C8: with rounding enabled every stake is a whole number within 0.5 of
\* the exact stake (bankroll / odds_i) / s_value of its own leg; the stakes
\* are not re-balanced against each other.
C8_StakesRoundedToNearest ==
    (StakesReturned /\ call.round_stakes) =>
        \A i \in 1..Len(call.outcomes) :
            /\ ret.value[i] \in Int
            /\ FLe(FAbs(FSub(FInt(ret.value[i]),
                             ExactStake(call.total_bankroll,
                                        call.outcomes[i].odds, call.s_value))),
                   Half)

\* Rounded stakes were returned of which one was rounded up and one down,
\* and which do not add up to the bankroll
C8_RoundedBothWays ==
    /\ StakesReturned
    /\ call.round_stakes
    /\ FInt(SumInts(ret.value)) # call.total_bankroll
    /\ \E i, j \in 1..Len(call.outcomes) :
          /\ FLt(FInt(ret.value[i]),
                 ExactStake(call.total_bankroll, call.outcomes[i].odds, call.s_value))
          /\ FLt(ExactStake(call.total_bankroll, call.outcomes[j].odds, call.s_value),
                 FInt(ret.value[j]))

\* The stake of one leg, as calculate_optimal_stakes is to compute it
LegStake(bankroll, odds, s_value, round_stakes) ==
    IF round_stakes THEN PyRound(ExactStake(bankroll, odds, s_value))
    ELSE ExactStake(bankroll, odds, s_value)

\* C9: calculate_optimal_stakes returns one stake per input outcome, in
\* input order; every ArbitrageOpportunity has len(stakes) = len(outcomes),
\* the input outcomes in input order, and stakes[i] the stake of outcomes[i].
C9_OneStakePerOutcomeInOrder ==
    /\ StakesReturned =>
          /\ DOMAIN ret.value = 1..Len(call.outcomes)
          /\ \A i \in 1..Len(call.outcomes) :
                ret.value[i] = LegStake(call.total_bankroll, call.outcomes[i].odds,
                                        call.s_value, call.round_stakes)
    /\ Opportunity =>
          /\ ret.value.outcomes = call.outcomes
          /\ DOMAIN ret.value.stakes = 1..Len(ret.value.outcomes)
          /\ \A i \in 1..Len(call.outcomes) :
                ret.value.stakes[i] =
                    LegStake(call.total_bankroll, ret.value.outcomes[i].odds,
                             ret.value.arbitrage_percentage, TRUE)

\* An ArbitrageOpportunity was returned for three outcomes whose stakes are
\* all different
C9_ThreeDifferentStakes ==
    /\ Opportunity
    /\ Len(ret.value.stakes) = 3
    /\ \A i, j \in 1..3 : i # j => ret.value.stakes[i] # ret.value.stakes[j]

\* C10: every ArbitrageOpportunity returned has arbitrage_percentage < 1.0,
\* equal to the sum of 1/odds_i over its own outcomes, and
\* profit_margin = (1 - arbitrage_percentage) * 100, strictly positive.
C10_OnlyForArbitrage ==
    Opportunity =>
        /\ FLt(ret.value.arbitrage_percentage, One)
        /\ ret.value.arbitrage_percentage
               = ReciprocalSum(ret.value.outcomes, Len(ret.value.outcomes))
        /\ ret.value.profit_margin
               = FMul(FSub(One, ret.value.arbitrage_percentage), FInt(100))
        /\ FLt(FZero, ret.value.profit_margin)

\* An ArbitrageOpportunity was returned whose arbitrage_percentage is the
\* float next below 1.0
C10_BarelyArbitrage ==
    /\ Opportunity
    /\ FSub(One, ret.value.arbitrage_percentage)
           = FDiv(One, FMul(FInt(2 ^ 27), FInt(2 ^ 26)))

\* C11: every ArbitrageOpportunity has total_bankroll equal to the sum of
\* its rounded stakes, guaranteed_profit = total_bankroll * (1 - S) and
\* roi = calculate_roi(guaranteed_profit, total_bankroll): 0.0 for an
\* investment <= 0, else (guaranteed_profit / total_bankroll) * 100.
C11_ActualInvestment ==
    Opportunity =>
        /\ ret.value.total_bankroll = SumInts(ret.value.stakes)
        /\ ret.value.guaranteed_profit
               = FMul(FInt(ret.value.total_bankroll),
                      FSub(FInt(1), ret.value.arbitrage_percentage))
        /\ ret.value.roi
               = IF ret.value.total_bankroll <= 0 THEN FZero
                 ELSE FMul(FDiv(ret.value.guaranteed_profit,
                                FInt(ret.value.total_bankroll)), FInt(100))

\* An ArbitrageOpportunity was returned whose total_bankroll is positive
\* and differs from the requested bankroll
C11_InvestmentDiffersFromRequest ==
    /\ Opportunity
    /\ ret.value.total_bankroll > 0
    /\ FInt(ret.value.total_bankroll) # call.total_bankroll
    /\ FLt(FZero, ret.value.roi)

\* C12: in every ArbitrageOpportunity, whatever the outcome list and the
\* requested bankroll, every stake is integer-valued and non-negative.
C12_StakesNonNegativeIntegers ==
    Opportunity =>
        \A i \in 1..Len(ret.value.stakes) :
            ret.value.stakes[i] \in Int /\ ret.value.stakes[i] >= 0

\* detect_arbitrage is to report no arbitrage for the outcomes: fewer than 2
\* outcomes, odds <= 1.0, or S >= 1.0
NoArbitrage(outcomes) ==
    \/ ~ValidOutcomes(outcomes)
    \/ FLe(FInt(1), ReciprocalSum(outcomes, Len(outcomes)))

\* C13: create_arbitrage_opportunity returns None, raising nothing, exactly
\* when detect_arbitrage reports no arbitrage for the outcomes, whatever the
\* bankroll; for every other input it returns an ArbitrageOpportunity.
C13_NoneIffNoArbitrage ==
    Returned("create_arbitrage_opportunity") =>
        IF NoArbitrage(call.outcomes) THEN ret = Return([kind |-> "None"])
        ELSE Opportunity

\* C14: create_arbitrage_opportunity never ends in the allocator's
\* precondition error, for any outcome list and bankroll: whatever it
\* raises, it raises for outcomes whose S is below 1.0, the allocator
\* having been called with s_value < 1.0.
C14_PreconditionErrorUnreachable ==
    Returned("create_arbitrage_opportunity") =>
        /\ ret.raised # "ValueError"
        /\ ret.raised # "none" =>
              /\ ValidOutcomes(call.outcomes)
              /\ FLt(ReciprocalSum(call.outcomes, Len(call.outcomes)), FInt(1))

\* create_arbitrage_opportunity has returned None for three viable odds
\* whose S is exactly 1.0, the smallest S the allocator rejects
C14_BorderlineNotAllocated ==
    /\ Returned("create_arbitrage_opportunity")
    /\ call.total_bankroll = FInt(10)
    /\ ValidOutcomes(call.outcomes)
    /\ ReciprocalSum(call.outcomes, Len(call.outcomes)) = FInt(1)
    /\ ret = Return([kind |-> "None"])

\* C15: calculate_guaranteed_profit(B, S) returns 0.0 for every S >= 1.0,
\* S exactly 1.0 included, and B * (1 - S) for every S < 1.0; in particular
\* calculate_guaranteed_profit(1000, 0.95) is 50.
C15_GuaranteedProfit ==
    Returned("calculate_guaranteed_profit") =>
        /\ ret.raised = "none"
        /\ FLe(FInt(1), call.s_value) => ret.value = FZero
        /\ FLt(call.s_value, FInt(1)) =>
              ret.value = FMul(call.total_bankroll, FSub(FInt(1), call.s_value))
        /\ (call.total_bankroll = FInt(1000) /\ call.s_value = FLit(95, 100)) =>
              ret.value = FInt(50)

\* C16: calculate_guaranteed_profit never returns a negative value and
\* never raises, for every bankroll and every S.
C16_ProfitNeverNegative ==
    Returned("calculate_guaranteed_profit") =>
        /\ ret.raised = "none"
        /\ ~FLt(ret.value, FZero)

\* C17: calculate_roi(profit, investment) returns 0.0, dividing nothing, for
\* every investment <= 0 whatever the profit, and
\* (profit / investment) * 100 for every investment > 0; in particular
\* calculate_roi(50, 1000) is 5.
C17_Roi ==
    Returned("calculate_roi") =>
        /\ ret.raised = "none"
        /\ FLe(call.total_investment, FZero) => ret.value = FZero
        /\ FLt(FZero, call.total_investment) =>
              ret.value = FMul(FDiv(call.profit, call.total_investment), FInt(100))
        /\ (call.profit = FInt(50) /\ call.total_investment = FInt(1000)) =>
              ret.value = FInt(5)

\* calculate_roi has returned for a profit of 50 on an investment of 0
C17_ZeroInvestment ==
    /\ Returned("calculate_roi")
    /\ call.profit = FInt(50)
    /\ call.total_investment = FZero

\* The payout of leg i of the verified stakes
LegPayout(i) == FMul(call.stakes[i], call.outcomes[i].odds)

RECURSIVE ArrivalOrder(_, _)
ArrivalOrder(results, n) ==
    IF n = 0 THEN <<>>
    ELSE ArrivalOrder(results, n - 1)
             \o (IF results[n].raised = "none" THEN results[n].value ELSE <<>>)

\* The outcomes the scan of the event received
Arrived ==
    IF call.site = "ArbitrageScanner"
    THEN ArrivalOrder(call.all_outcomes, Len(call.all_outcomes))
    ELSE call.all_outcomes

\* A scan of an event has ended without raising
ScanReturned == Returned("scan_event") /\ ret.raised = "none"

\* o arrived i-th, no outcome of its market has greater odds, and none that
\* arrived before it has equal odds
FirstBest(o, i, arrived) ==
    /\ arrived[i] = o
    /\ \A j \in 1..Len(arrived) :
          arrived[j].market = o.market =>
              /\ FLe(arrived[j].odds, o.odds)
              /\ j < i => FLt(arrived[j].odds, o.odds)

\* C19: at every aggregation site the outcome selected for a market has
\* odds >= those of every outcome received for that market from any source,
\* and of several outcomes at the maximum the first in arrival order is
\* selected.
C19_BestOddsFirstSeen ==
    ScanReturned =>
        \A c \in 1..Len(ret.value.engine_calls) :
            \A k \in 1..Len(ret.value.engine_calls[c]) :
                \E i \in 1..Len(Arrived) :
                    FirstBest(ret.value.engine_calls[c][k], i, Arrived)

\* A scan selected an outcome for a market in which a later outcome, from
\* another bookmaker, has the same maximal odds
C19_TieAtMaximum ==
    /\ ScanReturned
    /\ ret.value.engine_calls # <<>>
    /\ \E k \in 1..Len(ret.value.engine_calls[1]) :
          \E i, j \in 1..Len(Arrived) :
              /\ i < j
              /\ Arrived[i] = ret.value.engine_calls[1][k]
              /\ Arrived[j].market = Arrived[i].market
              /\ Arrived[j].odds = Arrived[i].odds
              /\ Arrived[j].bookmaker # Arrived[i].bookmaker

\* C20: whenever an aggregation site calls create_arbitrage_opportunity it
\* passes exactly 3 outcomes, one per canonical market, in the order Home
\* Win, Draw, Away Win, whatever labels and ordering the sources deliver,
\* and it does not call the engine when fewer than 3 distinct market groups
\* exist.
C20_CanonicalOutcomesOnly ==
    Returned("scan_event") =>
        /\ ret.raised = "none"
        /\ \A c \in 1..Len(ret.value.engine_calls) :
              /\ Len(ret.value.engine_calls[c]) = 3
              /\ ret.value.engine_calls[c][1].market = "Home Win"
              /\ ret.value.engine_calls[c][2].market = "Draw"
              /\ ret.value.engine_calls[c][3].market = "Away Win"
        /\ Cardinality({Arrived[i].market : i \in 1..Len(Arrived)}) < 3 =>
              ret.value.engine_calls = <<>>

\* A call of ArbitrageScanner.scan_event
ArbitrageScannerCall == call.fn = "scan_event" /\ call.site = "ArbitrageScanner"

\* The sources whose fetch returned outcomes: it neither raised nor returned
\* an empty list
DeliveringSources ==
    SelectSeq(call.all_outcomes, LAMBDA r : r.raised = "none" /\ r.value # <<>>)

\* Every outcome that arrived is of the market of one of the outcomes
\* passed to the engine, whose odds are not less
AllArrivedChecked(passed) ==
    \A i \in 1..Len(Arrived) :
        \E k \in 1..Len(passed) :
            /\ passed[k].market = Arrived[i].market
            /\ FLe(Arrived[i].odds, passed[k].odds)

C22_GroupingAfterAllSettled ==
    (ArbitrageScannerCall /\ \E i \in 1..Len(fetches) : fetches[i] = Pending) =>
        ret = Pending

\* One source has delivered outcomes while the fetch of another is pending
C22_SettledWhileOtherPending ==
    /\ ArbitrageScannerCall
    /\ ret = Pending
    /\ \E i, j \in 1..Len(fetches) :
          /\ fetches[i].raised = "none"
          /\ fetches[i].value # <<>>
          /\ fetches[j] = Pending

\* A call of an engine function returns or raises
EngineReturns == ret = Pending /\ ret' # Pending

C24_PositiveStakesProfitRoi ==
    (Opportunity /\ FLt(FZero, call.total_bankroll)) =>
        /\ \A i \in 1..Len(ret.value.stakes) : ret.value.stakes[i] > 0
        /\ FLt(FZero, ret.value.guaranteed_profit)
        /\ FLt(FZero, ret.value.roi)

\* stakes[1] + ... + stakes[n] of unrounded stakes, added in list order
RECURSIVE SumStakes(_, _)
SumStakes(stakes, n) ==
    IF n = 0 THEN FZero ELSE FAdd(SumStakes(stakes, n - 1), stakes[n])

\* calculate_optimal_stakes has returned stakes for the S of an outcome
\* list that detect_arbitrage reported as arbitrage
StakesForDetectedS ==
    /\ StakesReturned
    /\ Len(history) = 1
    /\ history[1].call.fn = "detect_arbitrage"
    /\ history[1].ret.value[1]

\* The whole number total is within n/2 of the bankroll
WithinHalfPerOutcome(total, bankroll, n) ==
    FLe(FAbs(FSub(FInt(2 * total), FMul(FInt(2), bankroll))), FInt(n))

EqualUpToRounding(a, b) == FLe(FAbs(FSub(a, b)), FMul(PayoutTolerance, FAbs(b)))

C26_DocstringExample ==
    (/\ Returned("create_arbitrage_opportunity")
     /\ call.event_name = "Ajax vs PSV"
     /\ call.outcomes = ScenarioA
     /\ call.total_bankroll = FInt(1000)) =>
        /\ Opportunity
        /\ ret.value.guaranteed_profit = FLit(258, 10)

\* C29: in every ArbitrageOpportunity roi equals profit_margin, both
\* (1 - S) * 100, when the rounded stakes sum to more than 0; when they sum
\* to 0 or less the opportunity has roi = 0 and guaranteed_profit <= 0
\* although profit_margin > 0.
C29_RoiEqualsProfitMargin ==
    Opportunity =>
        /\ ret.value.profit_margin
               = FMul(FSub(One, ret.value.arbitrage_percentage), Hundred)
        /\ IF ret.value.total_bankroll > 0
           THEN ret.value.roi = ret.value.profit_margin
           ELSE /\ ret.value.roi = FZero
                /\ FLe(ret.value.guaranteed_profit, FZero)
                /\ FLt(FZero, ret.value.profit_margin)

\* C29 as amended: in every ArbitrageOpportunity profit_margin is
\* (1 - S) * 100, and roi equals it up to floating-point rounding (within a
\* relative error of 2^-50) when the rounded stakes sum to more than 0; when
\* they sum to 0 or less the opportunity has roi = 0 and
\* guaranteed_profit <= 0 although profit_margin > 0.
C29_RoiEqualsProfitMarginUpToRounding ==
    Opportunity =>
        /\ ret.value.profit_margin
               = FMul(FSub(One, ret.value.arbitrage_percentage), Hundred)
        /\ IF ret.value.total_bankroll > 0
           THEN EqualUpToRounding(ret.value.roi, ret.value.profit_margin)
           ELSE /\ ret.value.roi = FZero
                /\ FLe(ret.value.guaranteed_profit, FZero)
                /\ FLt(FZero, ret.value.profit_margin)

\* An ArbitrageOpportunity with a positive investment was returned whose
\* roi is not its profit_margin
C29_RoiDiffersFromProfitMargin ==
    /\ Opportunity
    /\ ret.value.total_bankroll > 0
    /\ ret.value.roi # ret.value.profit_margin

\* C30: for every pair of stakes and outcomes lists, two empty lists
\* included, verify_arbitrage_payout returns an (is_valid, payout) pair and
\* raises no error.
C30_VerifyIsTotal ==
    Returned("verify_arbitrage_payout") =>
        /\ ret.raised = "none"
        /\ Len(ret.value) = 2
        /\ ret.value[1] \in BOOLEAN

\* The invocations of scan_for_opportunities that are past the guard and
\* have not finished
Scanning == {t \in 1..Len(tasks) : tasks[t] \in {"listing", "closing"}}

\* C27: the REST scan is single-flight.  At most one invocation of
\* scan_for_opportunities is past its guard at any time; an invocation that
\* finds scan_in_progress true returns at once and leaves
\* opportunities_cache, last_scan_time and scan_in_progress unchanged; and
\* trigger_scan adds no task while a scan is in progress.
C27_SingleFlight ==
    /\ [](Cardinality(Scanning) <= 1)
    /\ [][\A t \in 1..Len(tasks) :
             (tasks[t] = "created" /\ scan_in_progress /\ tasks'[t] # "created") =>
                 /\ tasks'[t] = "returned"
                 /\ UNCHANGED <<opportunities_cache, last_scan_time,
                                scan_in_progress>>]_vars
    /\ [][scan_in_progress => Len(tasks') = Len(tasks)]_vars

\* An invocation has returned at its guard while another is scanning
C27_SecondInvocationReturned ==
    \E t, u \in 1..Len(tasks) : tasks[t] = "returned" /\ tasks[u] \in {"listing", "closing"}

\* C28: every invocation of scan_for_opportunities that sets
\* scan_in_progress eventually finishes, resetting it as it does, whether
\* the scan completes, an event's processing fails, or the client's
\* construction or the listing of the events raises; so scan_in_progress
\* never stays set.
C28_ScanInProgressReset ==
    /\ \A t \in 1..(MaxTriggers + 1) :
          (t \in Scanning) ~> (t \in 1..Len(tasks) /\ tasks[t] = "done")
    /\ [][\A t \in Scanning : tasks'[t] = "done" => ~scan_in_progress']_vars
    /\ scan_in_progress ~> ~scan_in_progress

\* A scan has ended without a result, and a later scan is past the guard
C28_ScanAfterFailedScan ==
    \E t, u \in 1..Len(tasks) :
        /\ tasks[t] = "done"
        /\ last_scan_time = [kind |-> "None"]
        /\ tasks[u] = "listing"
====
